---- MODULE Spec2Model ----
(***************************************************************************)
(* A model of AppComponent (src/src/app.component.ts): the chat session of *)
(* the A2UI front end.  The component's signals are the variables, each    *)
(* handler is one action, and each await is a pending call that a later    *)
(* action resolves or rejects.                                             *)
(*                                                                         *)
(* Text is a sequence of tokens (strings); the empty JavaScript string is  *)
(* the empty sequence.  A JavaScript object is the sequence of its own     *)
(* properties in the order Object.entries enumerates them.                 *)
(***************************************************************************)
EXTENDS Integers, Sequences, FiniteSets, TLC

(***************************************************************************)
(* Bounds of the model.                                                    *)
(***************************************************************************)
\* the longest history of the session, the greeting included
MaxMsgs == 3
\* the longest history of the retry session
MaxLiveMsgs == 5
\* the longest history of the form session, which starts with three turns
MaxFormMsgs == 5
\* the longest history of the connection session
MaxConnMsgs == 4
\* the connectAgent calls of the session that reach the external connect
MaxSessionConnects == 1
\* those of the connection session
MaxConnects == 2

(***************************************************************************)
(* Text.                                                                   *)
(***************************************************************************)
\* the value of a parameter that was not passed, of a field that is absent
Undefined == <<"<undefined>">>

\* what || takes for false: undefined and the empty string
Falsy(x) == x = Undefined \/ x = <<>>

\* a || b
OrElse(a, b) == IF Falsy(a) THEN b ELSE a

IsSpace(tok) == tok \in {" ", "\t", "\n"}

RECURSIVE TrimStart(_)
TrimStart(t) ==
    IF t = <<>> THEN <<>>
    ELSE IF IsSpace(Head(t)) THEN TrimStart(Tail(t)) ELSE t

RECURSIVE TrimEnd(_)
TrimEnd(t) ==
    IF t = <<>> THEN <<>>
    ELSE IF IsSpace(t[Len(t)]) THEN TrimEnd(SubSeq(t, 1, Len(t) - 1)) ELSE t

\* String.prototype.trim
Trim(t) == TrimEnd(TrimStart(t))

\* Array.prototype.join over a sequence of tokens
RECURSIVE Join(_, _)
Join(toks, sep) ==
    IF toks = <<>> THEN <<>>
    ELSE IF Len(toks) = 1 THEN <<toks[1]>>
    ELSE <<toks[1], sep>> \o Join(Tail(toks), sep)

\* a JSON string literal (the model's tokens hold nothing JSON escapes)
JSONString(s) == <<"\"", s, "\"">>

(***************************************************************************)
(* JavaScript objects: the own properties in enumeration order, which is   *)
(* the array-index keys in ascending numeric order and then the other keys *)
(* in the order they were created.                                         *)
(***************************************************************************)
\* the numeric value of a key that is an array index, -1 of any other key
ArrayIndex(k) ==
    CASE k = "0" -> 0
      [] k = "1" -> 1
      [] k = "2" -> 2
      [] k = "3" -> 3
      [] OTHER -> -1

Keys(obj) == [i \in 1..Len(obj) |-> obj[i].k]

KeySet(obj) == {obj[i].k : i \in 1..Len(obj)}

HasKey(obj, k) == k \in KeySet(obj)

Get(obj, k) == obj[CHOOSE i \in 1..Len(obj) : obj[i].k = k].v

\* where a new key goes: an array index before the first larger array index
\* or the first other key, any other key at the end
InsertAt(obj, k) ==
    IF ArrayIndex(k) < 0 THEN Len(obj) + 1
    ELSE LET later == {i \in 1..Len(obj) :
                          \/ ArrayIndex(obj[i].k) < 0
                          \/ ArrayIndex(obj[i].k) > ArrayIndex(k)}
         IN  IF later = {} THEN Len(obj) + 1
             ELSE CHOOSE i \in later : \A j \in later : i <= j

\* CreateDataProperty: what a property of an object literal, computed or
\* spread, does; an existing key keeps its place
DefineProperty(obj, k, v) ==
    IF HasKey(obj, k)
    THEN [i \in 1..Len(obj) |-> IF obj[i].k = k THEN [k |-> k, v |-> v] ELSE obj[i]]
    ELSE LET at == InsertAt(obj, k)
         IN  SubSeq(obj, 1, at - 1) \o <<[k |-> k, v |-> v]>>
                 \o SubSeq(obj, at, Len(obj))

\* obj[k] = v on an ordinary object whose values are strings: the key
\* "__proto__" reaches the setter of Object.prototype, which ignores a value
\* that is neither an object nor null and creates no property
AssignProperty(obj, k, v) ==
    IF k = "__proto__" /\ ~HasKey(obj, k) THEN obj
    ELSE DefineProperty(obj, k, v)

\* { ...src } on top of the properties already in obj
RECURSIVE SpreadInto(_, _)
SpreadInto(obj, src) ==
    IF src = <<>> THEN obj
    ELSE SpreadInto(DefineProperty(obj, Head(src).k, Head(src).v), Tail(src))

\* JSON.stringify(obj, null, 2) of an object whose values are strings
RECURSIVE StringifyMembers(_)
StringifyMembers(obj) ==
    IF obj = <<>> THEN <<>>
    ELSE <<"\n  ">> \o JSONString(Head(obj).k) \o <<": ">> \o JSONString(Head(obj).v)
            \o (IF Len(obj) > 1 THEN <<",">> ELSE <<>>)
            \o StringifyMembers(Tail(obj))

StringifyIndented(obj) ==
    IF obj = <<>> THEN <<"{}">>
    ELSE <<"{">> \o StringifyMembers(obj) \o <<"\n", "}">>

(***************************************************************************)
(* UI component nodes (A2UIComponent): a type, the props as an object of   *)
(* string or literal values, and the children.  An absent props or         *)
(* children is the empty sequence; no node of the model has an empty one.  *)
(***************************************************************************)
Str(text) == [t |-> "string", s |-> text]

Lit(tok) == [t |-> "literal", s |-> <<tok>>]

Prop(k, v) == [k |-> k, v |-> v]

Node(type, props, children) == [type |-> type, props |-> props, children |-> children]

TextNode(content) == Node("text", <<Prop("content", Str(<<content>>))>>, <<>>)

ButtonNode(label, action, variant) ==
    Node("button", <<Prop("label", Str(<<label>>)), Prop("action", Str(<<action>>)),
                     Prop("variant", Str(<<variant>>))>>, <<>>)

InputNode(id) == Node("input", <<Prop("id", Str(<<id>>))>>, <<>>)

\* the tree the constructor shows
Greeting ==
    Node("container", <<Prop("direction", Str(<<"col">>)), Prop("gap", Str(<<"md">>))>>, <<
      Node("card", <<Prop("variant", Str(<<"filled">>))>>, <<
        Node("container", <<Prop("direction", Str(<<"row">>)), Prop("align", Str(<<"center">>)),
                            Prop("gap", Str(<<"md">>))>>, <<
          Node("text", <<Prop("content", Str(<<"sparkles">>)), Prop("size", Str(<<"xl">>))>>, <<>>),
          Node("text", <<Prop("content", Str(<<"A2UI Interface Ready">>)), Prop("size", Str(<<"lg">>)),
                         Prop("bold", Lit("true")), Prop("color", Str(<<"text-white">>))>>, <<>>) >>),
        Node("divider", <<>>, <<>>),
        Node("text", <<Prop("content", Str(<<"Please configure your Azure OpenAI settings to begin.">>)),
                       Prop("size", Str(<<"md">>))>>, <<>>),
        Node("container", <<Prop("direction", Str(<<"row">>)), Prop("gap", Str(<<"sm">>))>>, <<
          ButtonNode("Configure Agent", "open_settings", "primary"),
          ButtonNode("ServiceNow Demo", "demo_servicenow", "secondary") >>) >>) >>)

\* the tree a successful connect shows
Acknowledgement(deployment_name) ==
    Node("container", <<Prop("direction", Str(<<"col">>)), Prop("gap", Str(<<"sm">>))>>, <<
      Node("badge", <<Prop("label", Str(<<"Connected">>)), Prop("variant", Str(<<"success">>))>>, <<>>),
      Node("text", <<Prop("content", Str(<<"Successfully connected to ">> \o deployment_name))>>, <<>>) >>)

\* trees the agent answers with: a text, and forms of input fields with a
\* submit button
TextReply == TextNode("Done.")

FormOf(ids, action) ==
    Node("card", <<Prop("variant", Str(<<"outlined">>))>>,
         [i \in 1..Len(ids) |-> InputNode(ids[i])] \o <<ButtonNode("Submit", action, "primary")>>)

ChangeForm == FormOf(<<"name", "email", "1", "__proto__">>, "submit_order")

\* the ids of the input fields a tree renders
RECURSIVE InputIds(_)
InputIds(node) ==
    (IF node.type = "input" THEN {node.props[1].v.s[1]} ELSE {})
      \cup UNION {InputIds(node.children[i]) : i \in 1..Len(node.children)}

(***************************************************************************)
(* JSON.stringify of a UI tree: the keys in the order the literal gives.   *)
(***************************************************************************)
StringifyValue(v) == IF v.t = "string" THEN <<"\"">> \o v.s \o <<"\"">> ELSE v.s

RECURSIVE StringifyProps(_)
StringifyProps(props) ==
    IF props = <<>> THEN <<>>
    ELSE JSONString(Head(props).k) \o <<":">> \o StringifyValue(Head(props).v)
            \o (IF Len(props) > 1 THEN <<",">> ELSE <<>>)
            \o StringifyProps(Tail(props))

RECURSIVE StringifyNode(_)
RECURSIVE StringifyNodes(_)
StringifyNodes(nodes) ==
    IF nodes = <<>> THEN <<>>
    ELSE StringifyNode(Head(nodes)) \o (IF Len(nodes) > 1 THEN <<",">> ELSE <<>>)
            \o StringifyNodes(Tail(nodes))

StringifyNode(node) ==
    <<"{">> \o JSONString("type") \o <<":">> \o JSONString(node.type)
      \o (IF node.props = <<>> THEN <<>>
          ELSE <<",">> \o JSONString("props") \o <<":", "{">> \o StringifyProps(node.props) \o <<"}">>)
      \o (IF node.children = <<>> THEN <<>>
          ELSE <<",">> \o JSONString("children") \o <<":", "[">>
                 \o StringifyNodes(node.children) \o <<"]">>)
      \o <<"}">>

(***************************************************************************)
(* The state.                                                              *)
(***************************************************************************)
VARIABLES
    messages,          \* ChatMessage[]: the turns, oldest first
    userInput,         \* the text of the input box
    isLoading,         \* a send is in flight
    isSettingsOpen,    \* the configuration panel is shown
    isConnecting,      \* a connect is in flight
    connectionStatus,  \* "disconnected", "connected" or "error"
    activeFormData,    \* the live form fields: id -> {value, isValid}
    configForm,        \* the configuration form: its value and whether touched
    pendingGen,        \* the generateResponse calls awaited
    pendingConn,       \* the connect calls awaited
    owner,             \* history: the send each turn belongs to, 0 for none
    genOutcome,        \* history: the outcome of each generateResponse call
    connOutcome,       \* history: the outcome of each connect call
    fieldLog,          \* history: the latest event of each live field, in the order
                       \* the fields were first entered, with the turn of its form
    lastOp             \* history: the last operation and what it was given

progVars == <<messages, userInput, isLoading, isSettingsOpen, isConnecting,
              connectionStatus, activeFormData, configForm, pendingGen, pendingConn>>

histVars == <<owner, genOutcome, connOutcome, fieldLog, lastOp>>

vars == <<progVars, histVars>>

\* a user turn and a model turn of the history (the timestamp is left out:
\* nothing reads it)
UserTurn(content, promptContent) ==
    [role |-> "user", content |-> content, promptContent |-> promptContent, ui |-> <<>>]

ModelTurn(ui) ==
    [role |-> "model", content |-> Undefined, promptContent |-> Undefined, ui |-> <<ui>>]

\* the record of an operation: its action id, the sendMessage call it made
\* (none or one), the form data and the field log it found, the call it
\* settled and the tree that call returned
Op(op) ==
    [op |-> op, actionId |-> "", call |-> <<>>, form |-> <<>>, log |-> <<>>,
     sid |-> 0, ui |-> <<>>, event |-> <<>>]

Call(promptText, displayText) == <<[promptText |-> promptText, displayText |-> displayText]>>

\* the configuration form as constructed
ConfigDefaults ==
    [endpoint |-> <<>>, api_key |-> <<>>, deployment_name |-> <<"gpt-4o">>,
     api_version |-> <<"2024-05-01-preview">>, mcp_servers |-> <<>>]

\* the turns that are still to come from the calls in flight
Reserved == Cardinality(pendingGen) + Cardinality(pendingConn)

\* a history of at most limit turns has room for n more
HasRoom(limit, n) == Len(messages) + Reserved + n <= limit

\* the index of the latest model turn
LastModelTurn ==
    LET at == {i \in 1..Len(messages) : messages[i].role = "model"}
    IN  IF at = {} THEN 0 ELSE CHOOSE i \in at : \A j \in at : j <= i

(***************************************************************************)
(* The constructor.                                                        *)
(***************************************************************************)
\* an addSystemMessage that puts the turn first
AddSystemMessageFirst(msgs, ui) == <<ModelTurn(ui)>> \o msgs

\* addSystemMessage
AddSystemMessage(msgs, ui) == Append(msgs, ModelTurn(ui))

Init ==
    /\ messages = AddSystemMessage(<<>>, Greeting)
    /\ userInput = <<>>
    /\ isLoading = FALSE
    /\ isSettingsOpen = FALSE
    /\ isConnecting = FALSE
    /\ connectionStatus = "disconnected"
    /\ activeFormData = <<>>
    /\ configForm = [value |-> ConfigDefaults, touched |-> FALSE]
    /\ pendingGen = {}
    /\ pendingConn = {}
    /\ owner = <<0>>
    /\ genOutcome = <<>>
    /\ connOutcome = <<>>
    /\ fieldLog = <<>>
    /\ lastOp = Op("constructor")

(***************************************************************************)
(* sendMessage and the two ways its await ends.                            *)
(***************************************************************************)
\* promptText || this.userInput()
TextToSend(promptText) == OrElse(promptText, userInput)

\* displayText || textToSend
TextToDisplay(promptText, displayText) == OrElse(displayText, TextToSend(promptText))

\* the guard without its test of isLoading
SendRejectedWhenBlank(textToSend) == Trim(textToSend) = <<>>

\* the guard: !textToSend.trim() || this.isLoading()
SendRejected(textToSend) == Trim(textToSend) = <<>> \/ isLoading

\* an entry that takes the text of a user turn from what the chat shows
HistoryEntryDisplayed(m) ==
    [role |-> m.role,
     parts |-> <<[text |-> IF m.role = "user" THEN m.content
                           ELSE StringifyNode(m.ui[1])]>>]

\* the history handed to the agent: one entry per turn
HistoryEntry(m) ==
    [role |-> m.role,
     parts |-> <<[text |-> IF m.role = "user" THEN OrElse(m.promptContent, m.content)
                           ELSE StringifyNode(m.ui[1])]>>]

\* a history that leaves the greeting out
SerializeHistoryFromSecond(msgs) ==
    [i \in 1..(Len(msgs) - 1) |-> HistoryEntry(msgs[i + 1])]

SerializeHistory(msgs) == [i \in 1..Len(msgs) |-> HistoryEntry(msgs[i])]

\* the turn sendMessage appends
NewUserTurn(textToDisplay, textToSend) == UserTurn(textToDisplay, textToSend)

SendMessage(promptText, displayText) ==
    LET textToSend == TextToSend(promptText)
        textToDisplay == TextToDisplay(promptText, displayText)
        sid == Len(genOutcome) + 1
    IN  IF SendRejected(textToSend)
        THEN UNCHANGED <<messages, userInput, isLoading, pendingGen, owner, genOutcome>>
        ELSE /\ messages' = Append(messages, NewUserTurn(textToDisplay, textToSend))
             /\ userInput' = <<>>
             /\ isLoading' = TRUE
             /\ pendingGen' = pendingGen \cup
                    {[sid |-> sid, prompt |-> textToSend, history |-> SerializeHistory(messages)]}
             /\ owner' = Append(owner, sid)
             /\ genOutcome' = Append(genOutcome, "pending")

\* a try branch that drops the response
OnResponseLost(msgs, uiResponse) == msgs

\* the try branch after the await: addSystemMessage(uiResponse)
OnResponse(msgs, uiResponse) == AddSystemMessage(msgs, uiResponse)

\* a catch branch that takes the user turn back
OnSendErrorRollback(msgs) == SubSeq(msgs, 1, Len(msgs) - 1)

\* the catch branch: console.error only
OnSendError(msgs) == msgs

(***************************************************************************)
(* The form data and the UI actions.                                       *)
(***************************************************************************)
\* a handler that keeps only the field of the event (no spread of current)
HandleFormChangeAlone(event) ==
    activeFormData' = DefineProperty(<<>>, event.id,
                                     [value |-> event.value, isValid |-> event.isValid])

HandleFormChange(event) ==
    activeFormData' = DefineProperty(SpreadInto(<<>>, activeFormData), event.id,
                                     [value |-> event.value, isValid |-> event.isValid])

\* Object.entries(currentFormData).filter(([_, data]) => !data.isValid).map(([id]) => id)
InvalidFields(currentFormData) ==
    Keys(SelectSeq(currentFormData, LAMBDA e : ~e.v.isValid))

\* values[k] = v.value for each entry
RECURSIVE ValuesOf(_, _)
ValuesOf(values, entries) ==
    IF entries = <<>> THEN values
    ELSE ValuesOf(AssignProperty(values, Head(entries).k, Head(entries).v.value), Tail(entries))

\* a fallback table without the arm of demo_servicenow
DemoPromptTwoArms(actionId) ==
    CASE actionId = "demo_product" ->
           <<"Generate a stylish product card for high-end headphones with an image, price, and buy button.">>
      [] actionId = "demo_list" ->
           <<"Create a checklist of 5 things to do for a healthy morning routine.">>
      [] OTHER -> <<"User triggered action: ", actionId, ".">>

DemoPrompt(actionId) ==
    CASE actionId = "demo_product" ->
           <<"Generate a stylish product card for high-end headphones with an image, price, and buy button.">>
      [] actionId = "demo_list" ->
           <<"Create a checklist of 5 things to do for a healthy morning routine.">>
      [] actionId = "demo_servicenow" ->
           <<"Generate a Standard ServiceNow Change Request form in a SINGLE card. Include at least these 10 fields: Change Number (readonly), Requested By, State, Priority, Risk, Short Description, Description, Assignment Group, Planned Start Date, and Planned End Date. Use Dividers to separate sections like \"General\", \"Schedule\", and \"Planning\".">>
      [] OTHER -> <<"User triggered action: ", actionId, ".">>

DemoDisplay(actionId) ==
    CASE actionId = "demo_product" -> <<"Show me a product demo">>
      [] actionId = "demo_list" -> <<"Show me a list demo">>
      [] actionId = "demo_servicenow" -> <<"Create a Standard ServiceNow Change Request">>
      [] OTHER -> <<"Triggered Action: ", actionId>>

\* whether the form-data branch is taken: Object.keys(currentFormData).length > 0
HasFormData(currentFormData) == Len(Keys(currentFormData)) > 0

\* the warning of the prompt and the marker of the display
InvalidWarning(invalidFields) ==
    IF Len(invalidFields) > 0
    THEN <<"\n\nWarning: The following fields have validation errors: ">>
            \o Join(invalidFields, ", ")
    ELSE <<>>

InvalidMarker(invalidFields) ==
    IF Len(invalidFields) > 0 THEN <<" ", "U+26A0 U+FE0F", " Invalid Fields">> ELSE <<>>

ActionPrompt(actionId, currentFormData) ==
    IF HasFormData(currentFormData)
    THEN <<"User triggered action: ", actionId, ".">>
            \o <<"\n\nSubmitted Form Data:\n">>
            \o StringifyIndented(ValuesOf(<<>>, currentFormData))
            \o InvalidWarning(InvalidFields(currentFormData))
    ELSE DemoPrompt(actionId)

ActionDisplay(actionId, currentFormData) ==
    IF HasFormData(currentFormData)
    THEN <<"Triggered Action: ", actionId>> \o <<" (Submitted Data)">>
            \o InvalidMarker(InvalidFields(currentFormData))
    ELSE DemoDisplay(actionId)

\* an action that leaves the form data as it found it
FormDataKept(currentFormData) == currentFormData

\* what the action leaves in activeFormData
FormDataAfterAction(currentFormData) ==
    IF HasFormData(currentFormData) THEN <<>> ELSE currentFormData

\* a handler without the open_settings branch
HandleUiActionNoShortCircuit(actionId) ==
    LET currentFormData == activeFormData
        prompt == ActionPrompt(actionId, currentFormData)
        display == ActionDisplay(actionId, currentFormData)
    IN  /\ activeFormData' = FormDataAfterAction(currentFormData)
        /\ SendMessage(prompt, display)
        /\ lastOp' = [Op("handleUiAction") EXCEPT !.actionId = actionId,
                         !.call = Call(prompt, display),
                         !.form = currentFormData, !.log = fieldLog]
        /\ UNCHANGED isSettingsOpen

\* the handler, and the record of what it found and handed to sendMessage
HandleUiAction(actionId) ==
    IF actionId = "open_settings"
    THEN /\ isSettingsOpen' = TRUE
         /\ lastOp' = [Op("handleUiAction") EXCEPT !.actionId = actionId,
                          !.form = activeFormData, !.log = fieldLog]
         /\ UNCHANGED <<messages, userInput, isLoading, pendingGen, owner, genOutcome,
                        activeFormData>>
    ELSE LET currentFormData == activeFormData
             prompt == ActionPrompt(actionId, currentFormData)
             display == ActionDisplay(actionId, currentFormData)
         IN  /\ activeFormData' = FormDataAfterAction(currentFormData)
             /\ SendMessage(prompt, display)
             /\ lastOp' = [Op("handleUiAction") EXCEPT !.actionId = actionId,
                              !.call = Call(prompt, display),
                              !.form = currentFormData, !.log = fieldLog]
             /\ UNCHANGED isSettingsOpen

(***************************************************************************)
(* The configuration panel and connectAgent.                               *)
(***************************************************************************)
\* a form whose api_version control is not required
ConfigInvalidThreeControls(value) ==
    \/ value.endpoint = <<>>
    \/ value.api_key = <<>>
    \/ value.deployment_name = <<>>

\* Validators.required on the four required controls
ConfigInvalid(value) ==
    \/ value.endpoint = <<>>
    \/ value.api_key = <<>>
    \/ value.deployment_name = <<>>
    \/ value.api_version = <<>>

\* the config handed to the external connect
ConfigOf(value) == [value EXCEPT !.mcp_servers = OrElse(value.mcp_servers, <<>>)]

ConnectAgent ==
    IF ConfigInvalid(configForm.value)
    THEN /\ configForm' = [configForm EXCEPT !.touched = TRUE]
         /\ UNCHANGED <<isConnecting, connectionStatus, pendingConn, connOutcome>>
    ELSE /\ isConnecting' = TRUE
         /\ connectionStatus' = "disconnected"
         /\ pendingConn' = pendingConn \cup
                {[cid |-> Len(connOutcome) + 1, config |-> ConfigOf(configForm.value)]}
         /\ connOutcome' = Append(connOutcome, "pending")
         /\ UNCHANGED configForm

\* the try branch after the await
OnConnected(msgs, config) == AddSystemMessage(msgs, Acknowledgement(config.deployment_name))

\* a catch branch that reports the failure in a turn
OnConnectErrorTurn(msgs) == AddSystemMessage(msgs, TextNode("Connection failed."))

\* the catch branch
OnConnectError(msgs) == msgs

(***************************************************************************)
(* The steps: each handler with what the history variables record of it.   *)
(***************************************************************************)
\* the log of the fields that remain
LogLeft == SelectSeq(fieldLog, LAMBDA r : r.id \in KeySet(activeFormData'))

\* the log with the event: a field already live keeps its place
Logged(id, value, isValid, turn) ==
    LET r == [id |-> id, value |-> value, isValid |-> isValid, turn |-> turn]
    IN  IF \E i \in 1..Len(fieldLog) : fieldLog[i].id = id
        THEN [i \in 1..Len(fieldLog) |-> IF fieldLog[i].id = id THEN r ELSE fieldLog[i]]
        ELSE Append(fieldLog, r)

\* the user types into the input box
TypeInput(text) ==
    /\ userInput' = text
    /\ lastOp' = Op("typeInput")
    /\ UNCHANGED <<messages, isLoading, isSettingsOpen, isConnecting, connectionStatus,
                   activeFormData, configForm, pendingGen, pendingConn>>
    /\ UNCHANGED <<owner, genOutcome, connOutcome, fieldLog>>

\* a call of sendMessage from the input box or from a caller with a prompt
Send(promptText, displayText) ==
    /\ SendMessage(promptText, displayText)
    /\ lastOp' = [Op("sendMessage") EXCEPT !.call = Call(promptText, displayText)]
    /\ UNCHANGED <<isSettingsOpen, isConnecting, connectionStatus, activeFormData,
                   configForm, pendingConn>>
    /\ UNCHANGED <<connOutcome, fieldLog>>

\* generateResponse returns uiResponse to the send that awaits it
GenerateResolved(c, uiResponse) ==
    /\ c \in pendingGen
    /\ messages' = OnResponse(messages, uiResponse)
    /\ isLoading' = FALSE
    /\ pendingGen' = pendingGen \ {c}
    /\ owner' = owner \o [i \in 1..(Len(messages') - Len(messages)) |-> c.sid]
    /\ genOutcome' = [genOutcome EXCEPT ![c.sid] = "ok"]
    /\ lastOp' = [Op("generateResolved") EXCEPT !.sid = c.sid, !.ui = <<uiResponse>>]
    /\ UNCHANGED <<userInput, isSettingsOpen, isConnecting, connectionStatus,
                   activeFormData, configForm, pendingConn>>
    /\ UNCHANGED <<connOutcome, fieldLog>>

\* a rejection after which isLoading is not reset (no finally)
GenerateRejectedNoFinally(c) ==
    /\ c \in pendingGen
    /\ messages' = OnSendError(messages)
    /\ pendingGen' = pendingGen \ {c}
    /\ genOutcome' = [genOutcome EXCEPT ![c.sid] = "failed"]
    /\ lastOp' = [Op("generateRejected") EXCEPT !.sid = c.sid]
    /\ UNCHANGED <<userInput, isLoading, isSettingsOpen, isConnecting, connectionStatus,
                   activeFormData, configForm, pendingConn>>
    /\ UNCHANGED <<owner, connOutcome, fieldLog>>

\* generateResponse throws to the send that awaits it
GenerateRejected(c) ==
    /\ c \in pendingGen
    /\ messages' = OnSendError(messages)
    /\ isLoading' = FALSE
    /\ pendingGen' = pendingGen \ {c}
    /\ owner' = IF Len(messages') <= Len(owner) THEN SubSeq(owner, 1, Len(messages'))
                ELSE owner \o [i \in 1..(Len(messages') - Len(owner)) |-> c.sid]
    /\ genOutcome' = [genOutcome EXCEPT ![c.sid] = "failed"]
    /\ lastOp' = [Op("generateRejected") EXCEPT !.sid = c.sid]
    /\ UNCHANGED <<userInput, isSettingsOpen, isConnecting, connectionStatus,
                   activeFormData, configForm, pendingConn>>
    /\ UNCHANGED <<connOutcome, fieldLog>>

\* the renderer reports a change of a field of the latest form
FieldChange(id, value, isValid) ==
    /\ LastModelTurn > 0
    /\ id \in InputIds(messages[LastModelTurn].ui[1])
    /\ HandleFormChange([id |-> id, value |-> value, isValid |-> isValid])
    /\ fieldLog' = Logged(id, value, isValid, LastModelTurn)
    /\ lastOp' = [Op("handleFormChange") EXCEPT
                     !.event = <<[id |-> id, value |-> value, isValid |-> isValid]>>]
    /\ UNCHANGED <<messages, userInput, isLoading, isSettingsOpen, isConnecting,
                   connectionStatus, configForm, pendingGen, pendingConn>>
    /\ UNCHANGED <<owner, genOutcome, connOutcome>>

\* the renderer reports a button of a rendered tree
UiAction(actionId) ==
    /\ HandleUiAction(actionId)
    /\ fieldLog' = LogLeft
    /\ UNCHANGED <<isConnecting, connectionStatus, configForm, pendingConn>>
    /\ UNCHANGED connOutcome

ToggleSettings ==
    /\ isSettingsOpen' = ~isSettingsOpen
    /\ lastOp' = Op("toggleSettings")
    /\ UNCHANGED <<messages, userInput, isLoading, isConnecting, connectionStatus,
                   activeFormData, configForm, pendingGen, pendingConn>>
    /\ UNCHANGED <<owner, genOutcome, connOutcome, fieldLog>>

\* the user edits the controls of the configuration form
EditConfig(value) ==
    /\ configForm.value # value
    /\ configForm' = [configForm EXCEPT !.value = value]
    /\ lastOp' = Op("editConfig")
    /\ UNCHANGED <<messages, userInput, isLoading, isSettingsOpen, isConnecting,
                   connectionStatus, activeFormData, pendingGen, pendingConn>>
    /\ UNCHANGED <<owner, genOutcome, connOutcome, fieldLog>>

Connect ==
    /\ ConnectAgent
    /\ lastOp' = Op("connectAgent")
    /\ UNCHANGED <<messages, userInput, isLoading, isSettingsOpen, activeFormData, pendingGen>>
    /\ UNCHANGED <<owner, genOutcome, fieldLog>>

\* the external connect returns to the connectAgent that awaits it
ConnectResolved(c) ==
    /\ c \in pendingConn
    /\ connectionStatus' = "connected"
    /\ isSettingsOpen' = FALSE
    /\ messages' = OnConnected(messages, c.config)
    /\ isConnecting' = FALSE
    /\ pendingConn' = pendingConn \ {c}
    /\ owner' = owner \o [i \in 1..(Len(messages') - Len(messages)) |-> 0]
    /\ connOutcome' = [connOutcome EXCEPT ![c.cid] = "ok"]
    /\ lastOp' = [Op("connectResolved") EXCEPT !.sid = c.cid]
    /\ UNCHANGED <<userInput, isLoading, activeFormData, configForm, pendingGen>>
    /\ UNCHANGED <<genOutcome, fieldLog>>

\* the external connect throws to the connectAgent that awaits it
ConnectRejected(c) ==
    /\ c \in pendingConn
    /\ connectionStatus' = "error"
    /\ messages' = OnConnectError(messages)
    /\ isConnecting' = FALSE
    /\ pendingConn' = pendingConn \ {c}
    /\ owner' = owner \o [i \in 1..(Len(messages') - Len(messages)) |-> 0]
    /\ connOutcome' = [connOutcome EXCEPT ![c.cid] = "failed"]
    /\ lastOp' = [Op("connectRejected") EXCEPT !.sid = c.cid]
    /\ UNCHANGED <<userInput, isLoading, isSettingsOpen, activeFormData, configForm, pendingGen>>
    /\ UNCHANGED <<genOutcome, fieldLog>>

(***************************************************************************)
(* The session: every operation, over small sets of inputs.  A call that   *)
(* would append a turn is taken only while the history has room for the    *)
(* turn and for the reply to it.                                           *)
(***************************************************************************)
SendFits(limit, promptText) ==
    HasRoom(limit, 2) \/ isLoading \/ Trim(TextToSend(promptText)) = <<>>

ActionFits(limit, actionId) ==
    \/ actionId = "open_settings"
    \/ SendFits(limit, ActionPrompt(actionId, activeFormData))

ConnectFits(limit, calls) ==
    \/ \E control \in {"endpoint", "api_key", "deployment_name", "api_version"} :
          configForm.value[control] = <<>>
    \/ Len(connOutcome) < calls /\ HasRoom(limit, 1)

TypedTexts == {<<" ">>, <<"hi">>}

SendArgs == {<<Undefined, Undefined>>, <<<<" ", "\n">>, <<"Blank">>>>}

ActionIds == {"open_settings", "demo_product", "demo_list", "demo_servicenow", "submit_order"}

Responses == {TextReply, ChangeForm}

ValidConfig ==
    [ConfigDefaults EXCEPT !.endpoint = <<"https://a2ui.example">>, !.api_key = <<"k">>]

ConfigValues == {ConfigDefaults, ValidConfig}

Next ==
    \/ \E text \in TypedTexts : TypeInput(text)
    \/ \E a \in SendArgs : SendFits(MaxMsgs, a[1]) /\ Send(a[1], a[2])
    \/ \E c \in pendingGen, ui \in Responses : GenerateResolved(c, ui)
    \/ \E c \in pendingGen : GenerateRejected(c)
    \/ FieldChange("name", "foo", TRUE)
    \/ \E actionId \in ActionIds : ActionFits(MaxMsgs, actionId) /\ UiAction(actionId)
    \/ ToggleSettings
    \/ \E value \in ConfigValues : EditConfig(value)
    \/ ConnectFits(MaxMsgs, MaxSessionConnects) /\ Connect
    \/ \E c \in pendingConn : ConnectResolved(c)
    \/ \E c \in pendingConn : ConnectRejected(c)

Spec == Init /\ [][Next]_vars

(***************************************************************************)
(* The form session: the session from the state in which the agent has     *)
(* answered the ServiceNow button of the greeting with a form, over the     *)
(* fields of that form.                                                    *)
(***************************************************************************)
InitForm ==
    /\ messages = <<ModelTurn(Greeting),
                    UserTurn(DemoDisplay("demo_servicenow"), DemoPrompt("demo_servicenow")),
                    ModelTurn(ChangeForm)>>
    /\ userInput = <<>>
    /\ isLoading = FALSE
    /\ isSettingsOpen = FALSE
    /\ isConnecting = FALSE
    /\ connectionStatus = "disconnected"
    /\ activeFormData = <<>>
    /\ configForm = [value |-> ConfigDefaults, touched |-> FALSE]
    /\ pendingGen = {}
    /\ pendingConn = {}
    /\ owner = <<0, 1, 1>>
    /\ genOutcome = <<"ok">>
    /\ connOutcome = <<>>
    /\ fieldLog = <<>>
    /\ lastOp = [Op("generateResolved") EXCEPT !.sid = 1, !.ui = <<ChangeForm>>]

\* the form is the last turn: nothing was sent since it was shown
FormOnDisplay == messages[Len(messages)].role = "model"

\* the field changes of the form session: an id, a value, a validity
FormEvents ==
    {<<"name", "foo", TRUE>>, <<"name", "bar", TRUE>>, <<"name", "foo", FALSE>>,
     <<"email", "bad", FALSE>>, <<"1", "x", FALSE>>, <<"__proto__", "y", TRUE>>}

FormActionIds == {"open_settings", "demo_product", "demo_list", "demo_servicenow", "submit_order"}

NextForm ==
    \/ TypeInput(<<"hi">>)
    \/ SendFits(MaxFormMsgs, Undefined) /\ Send(Undefined, Undefined)
    \/ \E c \in pendingGen : GenerateResolved(c, TextReply)
    \/ \E c \in pendingGen : GenerateRejected(c)
    \/ \E e \in FormEvents : FormOnDisplay /\ FieldChange(e[1], e[2], e[3])
    \/ ~FormOnDisplay /\ FieldChange("name", "late", TRUE)
    \/ \E actionId \in FormActionIds :
          ActionFits(MaxFormMsgs, actionId) /\ UiAction(actionId)

SpecForm == InitForm /\ [][NextForm]_vars

(***************************************************************************)
(* The connection session: the configuration form over every way of        *)
(* leaving a required control empty, connectAgent, and plain sends.        *)
(***************************************************************************)
ConnConfigValues ==
    {ValidConfig,
     [ValidConfig EXCEPT !.endpoint = <<>>],
     [ValidConfig EXCEPT !.api_key = <<>>],
     [ValidConfig EXCEPT !.deployment_name = <<>>],
     [ValidConfig EXCEPT !.api_version = <<>>]}

NextConn ==
    \/ TypeInput(<<"hi">>)
    \/ SendFits(MaxConnMsgs, Undefined) /\ Send(Undefined, Undefined)
    \/ \E c \in pendingGen : GenerateResolved(c, TextReply)
    \/ \E c \in pendingGen : GenerateRejected(c)
    \/ ToggleSettings
    \/ \E value \in ConnConfigValues : EditConfig(value)
    \/ ConnectFits(MaxConnMsgs, MaxConnects) /\ Connect
    \/ \E c \in pendingConn : ConnectResolved(c)
    \/ \E c \in pendingConn : ConnectRejected(c)

SpecConn == Init /\ [][NextConn]_vars

(***************************************************************************)
(* The retry session: sends from the input box and from buttons, where     *)
(* every awaited generateResponse call is settled in the end: its promise  *)
(* resolves or rejects and the continuation of sendMessage then runs.      *)
(***************************************************************************)
LiveActionIds == {"open_settings", "demo_list"}

Settle ==
    \E c \in pendingGen : GenerateResolved(c, TextReply) \/ GenerateRejected(c)

NextLive ==
    \/ TypeInput(<<"hi">>)
    \/ SendFits(MaxLiveMsgs, Undefined) /\ Send(Undefined, Undefined)
    \/ \E c \in pendingGen : GenerateResolved(c, TextReply)
    \/ \E c \in pendingGen : GenerateRejected(c)
    \/ \E actionId \in LiveActionIds :
          ActionFits(MaxLiveMsgs, actionId) /\ UiAction(actionId)
    \/ ToggleSettings

SpecLive == Init /\ [][NextLive]_vars /\ WF_vars(Settle)

(***************************************************************************)
(* What the claims speak of.                                               *)
(***************************************************************************)
\* a text of nothing but white space
IsBlank(text) == \A i \in 1..Len(text) : text[i] \in {" ", "\t", "\n"}

\* the prompt a sendMessage call resolves to, given the input box
ResolvedPrompt(call, input) ==
    IF call.promptText = Undefined \/ call.promptText = <<>> THEN input ELSE call.promptText

\* the display text it resolves to
ResolvedDisplay(call, input) ==
    IF call.displayText = Undefined \/ call.displayText = <<>>
    THEN ResolvedPrompt(call, input) ELSE call.displayText

\* the turns of a role that belong to send s
TurnsOf(s, role) == {i \in 1..Len(messages) : owner[i] = s /\ messages[i].role = role}

\* the step is a call of sendMessage, direct or from handleUiAction
IsSendCall == lastOp'.call # <<>>

(***************************************************************************)
(* C1: a sendMessage call whose resolved prompt is empty or blank, or that *)
(* is made while isLoading is set or a generateResponse call is awaited,   *)
(* appends no turn and invokes no generateResponse; so no send ever has    *)
(* more than its one user turn and at most one model turn.                 *)
(***************************************************************************)
RejectedSendDoesNothing ==
    /\ [][(/\ IsSendCall
           /\ \/ IsBlank(ResolvedPrompt(lastOp'.call[1], userInput))
              \/ isLoading
              \/ pendingGen # {})
          => (messages' = messages /\ pendingGen' = pendingGen /\ genOutcome' = genOutcome)]_vars
    /\ [](\A s \in 1..Len(genOutcome) :
             /\ Cardinality(TurnsOf(s, "user")) <= 1
             /\ Cardinality(TurnsOf(s, "model")) <= 1)

\* a typed send made while the first is awaited: the text is still in the box
SendWhileLoading ==
    /\ lastOp.op = "sendMessage"
    /\ lastOp.call[1].promptText = Undefined
    /\ userInput = <<"hi">>
    /\ isLoading
    /\ Cardinality(pendingGen) = 1
    /\ Len(messages) = 2

(***************************************************************************)
(* C2: a sendMessage call with a non-blank resolved prompt made while      *)
(* isLoading is not set appends exactly one user turn in the step of the   *)
(* call and awaits one generateResponse; when that call returns a tree,    *)
(* exactly one model turn holding the tree is appended, when it throws,    *)
(* none is; both ways isLoading is false afterwards.                       *)
(***************************************************************************)
AcceptedSendTurns ==
    /\ [][(IsSendCall /\ ~IsBlank(ResolvedPrompt(lastOp'.call[1], userInput)) /\ ~isLoading)
          => (/\ messages' = Append(messages,
                     [role |-> "user",
                      content |-> ResolvedDisplay(lastOp'.call[1], userInput),
                      promptContent |-> ResolvedPrompt(lastOp'.call[1], userInput),
                      ui |-> <<>>])
              /\ isLoading'
              /\ Cardinality(pendingGen') = Cardinality(pendingGen) + 1
              /\ Len(genOutcome') = Len(genOutcome) + 1)]_vars
    /\ [][lastOp'.op = "generateResolved"
          => (/\ Len(messages') = Len(messages) + 1
              /\ SubSeq(messages', 1, Len(messages)) = messages
              /\ messages'[Len(messages')].role = "model"
              /\ messages'[Len(messages')].ui = lastOp'.ui
              /\ ~isLoading')]_vars
    /\ [][lastOp'.op = "generateRejected"
          => (/\ {i \in 1..Len(messages') : messages'[i].role = "model"}
                   = {i \in 1..Len(messages) : messages[i].role = "model"}
              /\ ~isLoading')]_vars
    /\ [](\A s \in 1..Len(genOutcome) :
             /\ Cardinality(TurnsOf(s, "user")) = 1
             /\ Cardinality(TurnsOf(s, "model")) = (IF genOutcome[s] = "ok" THEN 1 ELSE 0)
             /\ genOutcome[s] = "pending" <=> \E c \in pendingGen : c.sid = s)

\* the agent has answered the first send
FirstSendAnswered ==
    /\ lastOp.op = "generateResolved"
    /\ genOutcome = <<"ok">>
    /\ Len(messages) = 3
    /\ messages[2].role = "user"
    /\ messages[3].role = "model"
    /\ ~isLoading

(***************************************************************************)
(* C3: the step in which generateResponse fails changes messages in no     *)
(* way and sets isLoading to false, all else as it was; the user turn of   *)
(* the failed send stays in the history.                                   *)
(***************************************************************************)
FailedSendKeepsHistory ==
    /\ [][lastOp'.op = "generateRejected"
          => (/\ messages' = messages
              /\ isLoading /\ ~isLoading'
              /\ UNCHANGED <<userInput, isSettingsOpen, isConnecting, connectionStatus,
                             activeFormData, configForm, pendingConn>>)]_vars
    /\ [](\A s \in 1..Len(genOutcome) :
             genOutcome[s] = "failed" => TurnsOf(s, "user") # {} /\ TurnsOf(s, "model") = {})

\* the first send has failed: its user turn is the last turn
FirstSendFailed ==
    /\ lastOp.op = "generateRejected"
    /\ genOutcome = <<"failed">>
    /\ Len(messages) = 2
    /\ messages[2].role = "user"
    /\ ~isLoading

\* the step is a call of handleUiAction that went past the open_settings branch
IsDispatch == lastOp.op = "handleUiAction" /\ lastOp.actionId # "open_settings"

\* the ids the form data held when the action was dispatched, and for each
\* the latest field change, in the order the ids were first inserted
FormLog == lastOp.log

\* the members of the mapping printed in a prompt: the places of the colons
MemberAt(prompt) == {i \in 3..(Len(prompt) - 2) : prompt[i] = ": "}

WarningText == "\n\nWarning: The following fields have validation errors: "

(***************************************************************************)
(* C4: in every reachable state each field held in activeFormData was      *)
(* entered into the form of the most recent model turn.                    *)
(***************************************************************************)
FormDataOfLatestForm ==
    \A i \in 1..Len(activeFormData) :
        \E j \in 1..Len(fieldLog) :
            fieldLog[j].id = activeFormData[i].k /\ fieldLog[j].turn = LastModelTurn

(***************************************************************************)
(* C5: right after handleUiAction has returned for an actionId other than  *)
(* "open_settings", activeFormData is empty.                               *)
(***************************************************************************)
DispatchClearsFormData == IsDispatch => activeFormData = <<>>

\* a demo action dispatched over a form with two fields entered
DispatchedOverFormData ==
    /\ IsDispatch
    /\ lastOp.actionId = "demo_servicenow"
    /\ Len(lastOp.form) = 2
    /\ activeFormData = <<>>

(***************************************************************************)
(* C6: an action dispatched with form data composes the prompt "User       *)
(* triggered action: {actionId}." followed by the "Submitted Form Data:"   *)
(* section, whose mapping has exactly one member per id of the form data,  *)
(* each with the value of the id's latest field change; the display is     *)
(* "Triggered Action: {actionId}" followed by " (Submitted Data)".         *)
(***************************************************************************)
SubmittedDataPrompt ==
    (IsDispatch /\ lastOp.form # <<>>) =>
        LET prompt == lastOp.call[1].promptText
            display == lastOp.call[1].displayText
        IN  /\ Len(prompt) >= 4
            /\ SubSeq(prompt, 1, 4) = <<"User triggered action: ", lastOp.actionId, ".",
                                        "\n\nSubmitted Form Data:\n">>
            /\ Cardinality(MemberAt(prompt)) = Len(lastOp.form)
            /\ {<<prompt[i - 2], prompt[i + 2]>> : i \in MemberAt(prompt)}
                  = {<<FormLog[j].id, FormLog[j].value>> : j \in 1..Len(FormLog)}
            /\ Len(display) >= 3
            /\ SubSeq(display, 1, 3) = <<"Triggered Action: ", lastOp.actionId,
                                         " (Submitted Data)">>

(***************************************************************************)
(* C7: the warning of an action dispatched with form data lists exactly    *)
(* the ids whose latest isValid is false, in the order the ids were first  *)
(* inserted; warning and invalid-fields marker are there iff there is such *)
(* an id.                                                                  *)
(***************************************************************************)
WarningInInsertionOrder ==
    (IsDispatch /\ lastOp.form # <<>>) =>
        LET prompt == lastOp.call[1].promptText
            display == lastOp.call[1].displayText
            invalid == SelectSeq(FormLog, LAMBDA r : ~r.isValid)
            ids == [j \in 1..Len(invalid) |-> invalid[j].id]
            at == {i \in 1..Len(prompt) : prompt[i] = WarningText}
            marked == \E i \in 1..Len(display) : display[i] = " Invalid Fields"
        IN  IF ids = <<>> THEN at = {} /\ ~marked
            ELSE /\ marked
                 /\ \E i \in at : SubSeq(prompt, i + 1, Len(prompt)) = Join(ids, ", ")

(***************************************************************************)
(* C8: an action dispatched with empty activeFormData hands sendMessage    *)
(* the pair its actionId alone decides: the canned pair of the demo table, *)
(* or the generic pair with no marker, in every reachable state.           *)
(***************************************************************************)
CannedPair(actionId) ==
    CASE actionId = "demo_product" ->
           Call(<<"Generate a stylish product card for high-end headphones with an image, price, and buy button.">>,
                <<"Show me a product demo">>)
      [] actionId = "demo_list" ->
           Call(<<"Create a checklist of 5 things to do for a healthy morning routine.">>,
                <<"Show me a list demo">>)
      [] actionId = "demo_servicenow" ->
           Call(<<"Generate a Standard ServiceNow Change Request form in a SINGLE card. Include at least these 10 fields: Change Number (readonly), Requested By, State, Priority, Risk, Short Description, Description, Assignment Group, Planned Start Date, and Planned End Date. Use Dividers to separate sections like \"General\", \"Schedule\", and \"Planning\".">>,
                <<"Create a Standard ServiceNow Change Request">>)
      [] OTHER ->
           Call(<<"User triggered action: ", actionId, ".">>, <<"Triggered Action: ", actionId>>)

EmptyFormPairByActionId ==
    (IsDispatch /\ lastOp.form = <<>>) => lastOp.call = CannedPair(lastOp.actionId)

\* demo_servicenow dispatched with no form data, after a failed connect
ServiceNowDispatched ==
    /\ IsDispatch
    /\ lastOp.actionId = "demo_servicenow"
    /\ lastOp.form = <<>>
    /\ connectionStatus = "error"
    /\ messages[Len(messages)].content = <<"Create a Standard ServiceNow Change Request">>

(***************************************************************************)
(* C9: a connectAgent call made while one of endpoint, api_key,            *)
(* deployment_name, api_version is empty invokes no external connect and   *)
(* leaves connectionStatus, isConnecting and messages as they were.        *)
(***************************************************************************)
InvalidConfigConnectDoesNothing ==
    [][(/\ lastOp'.op = "connectAgent"
        /\ \E control \in {"endpoint", "api_key", "deployment_name", "api_version"} :
              configForm.value[control] = <<>>)
       => (/\ UNCHANGED <<connectionStatus, isConnecting, messages>>
           /\ pendingConn' = pendingConn
           /\ connOutcome' = connOutcome)]_vars

\* connectAgent called with the endpoint emptied after a connect that succeeded
InvalidConnectWhenConnected ==
    /\ lastOp.op = "connectAgent"
    /\ configForm.value.endpoint = <<>>
    /\ configForm.touched
    /\ connectionStatus = "connected"
    /\ connOutcome = <<"ok">>

(***************************************************************************)
(* C10: when the external connect of a connectAgent call returns,          *)
(* connectionStatus becomes connected and exactly one model turn, the      *)
(* acknowledgement, is appended; when it throws, connectionStatus becomes  *)
(* error and no turn is appended; the external connect is invoked once per *)
(* valid connectAgent call and in no other step.                           *)
(***************************************************************************)
ConnectOutcomes ==
    /\ [][lastOp'.op = "connectResolved"
          => (/\ connectionStatus' = "connected"
              /\ Len(messages') = Len(messages) + 1
              /\ SubSeq(messages', 1, Len(messages)) = messages
              /\ messages'[Len(messages')].role = "model"
              /\ \E c \in pendingConn :
                    /\ c.cid = lastOp'.sid
                    /\ messages'[Len(messages')].ui
                          = <<Acknowledgement(c.config.deployment_name)>>)]_vars
    /\ [][lastOp'.op = "connectRejected"
          => (connectionStatus' = "error" /\ messages' = messages)]_vars
    /\ [][connOutcome' # connOutcome /\ Len(connOutcome') # Len(connOutcome)
          => (lastOp'.op = "connectAgent" /\ Len(connOutcome') = Len(connOutcome) + 1)]_vars
    /\ [][(/\ lastOp'.op = "connectAgent"
           /\ \A control \in {"endpoint", "api_key", "deployment_name", "api_version"} :
                 configForm.value[control] # <<>>)
          => (/\ Len(connOutcome') = Len(connOutcome) + 1
              /\ Cardinality(pendingConn') = Cardinality(pendingConn) + 1)]_vars

\* one connect has succeeded and one has failed
ConnectedThenFailed ==
    /\ lastOp.op = "connectRejected"
    /\ connOutcome = <<"ok", "failed">>
    /\ connectionStatus = "error"
    /\ Len(messages) = 2
    /\ messages[2].role = "model"

\* the place of the user turn of send s
UserTurnOf(s) == CHOOSE i \in 1..Len(messages) : owner[i] = s /\ messages[i].role = "user"

(***************************************************************************)
(* C11: the history handed to generateResponse by an accepted send has one *)
(* entry per turn that was in messages before the send appended its user   *)
(* turn, in the same order and with the same roles, without the user turn  *)
(* of the send itself; it stays so while the call is awaited, whatever is  *)
(* appended meanwhile.                                                     *)
(***************************************************************************)
HistoryCapturedBeforeSend ==
    /\ [][(IsSendCall /\ Len(messages') > Len(messages))
          => \E c \in pendingGen' \ pendingGen :
                /\ Len(c.history) = Len(messages)
                /\ \A i \in 1..Len(messages) : c.history[i].role = messages[i].role
                /\ c.sid \notin {owner[i] : i \in 1..Len(owner)}]_vars
    /\ [](\A c \in pendingGen :
             /\ Len(c.history) = UserTurnOf(c.sid) - 1
             /\ \A i \in 1..Len(c.history) :
                   c.history[i].role = messages[i].role /\ owner[i] # c.sid)
    /\ [][\A c \in pendingGen : \A d \in pendingGen' : d.sid = c.sid => d = c]_vars

\* a connect acknowledgement was appended while the send is awaited
TurnAppendedDuringSend ==
    \E c \in pendingGen :
        /\ Len(c.history) = 1
        /\ Len(messages) = 3
        /\ messages[2].role = "user"
        /\ messages[3].role = "model"
        /\ lastOp.op = "connectResolved"

\* the text a turn is to have in the history
TextOfTurn(m) ==
    IF m.role = "user"
    THEN (IF m.promptContent # Undefined /\ m.promptContent # <<>>
          THEN m.promptContent ELSE m.content)
    ELSE StringifyNode(m.ui[1])

(***************************************************************************)
(* C12: in the history handed to generateResponse the entry of a user turn *)
(* has the turn's promptContent when present, else its content, and the    *)
(* entry of a model turn has the JSON text of its ui tree; each entry is   *)
(* decided by the role and payload of its turn alone.                      *)
(***************************************************************************)
HistoryTexts ==
    \A c \in pendingGen :
        \A i \in 1..Len(c.history) :
            LET text == c.history[i].parts[1].text
            IN  /\ Len(c.history[i].parts) = 1
                /\ text = TextOfTurn(messages[i])
                /\ messages[i].role = "model" =>
                      /\ SubSeq(text, 1, 8)
                            = <<"{", "\"", "type", "\"", ":", "\"", messages[i].ui[1].type, "\"">>
                      /\ text[Len(text)] = "}"
                /\ \A d \in pendingGen : \A j \in 1..Len(d.history) :
                      messages[j] = messages[i] => d.history[j] = c.history[i]

\* the history of an awaited send holds the prompt of the ServiceNow button,
\* which the chat shows under another text
HistoryHoldsPrompt ==
    \E c \in pendingGen :
        /\ Len(c.history) = 3
        /\ c.history[2].role = "user"
        /\ c.history[2].parts[1].text = DemoPrompt("demo_servicenow")
        /\ messages[2].content # messages[2].promptContent
        /\ c.history[3].role = "model"

(***************************************************************************)
(* C13: messages is append-only: in every step the turns there were are a  *)
(* prefix of the turns there are, each as it was.                          *)
(***************************************************************************)
MessagesAppendOnly ==
    [][/\ Len(messages') >= Len(messages)
       /\ SubSeq(messages', 1, Len(messages)) = messages]_vars

\* a send has failed and a connect has then been acknowledged
AckAfterFailedSend ==
    /\ genOutcome = <<"failed">>
    /\ connOutcome = <<"ok">>
    /\ Len(messages) = 3
    /\ messages[1] = ModelTurn(Greeting)
    /\ messages[2].role = "user"
    /\ messages[3].role = "model"

(***************************************************************************)
(* C14: in every reachable state at most one generateResponse call is      *)
(* awaited.                                                                *)
(***************************************************************************)
SingleFlight ==
    /\ Cardinality(pendingGen) <= 1
    /\ Cardinality({s \in 1..Len(genOutcome) : genOutcome[s] = "pending"}) <= 1

\* a button was pressed while the typed send is awaited
ActionDuringTypedSend ==
    /\ IsDispatch
    /\ lastOp.call # <<>>
    /\ Cardinality(pendingGen) = 1
    /\ Len(messages) = 2
    /\ messages[2].content = <<"hi">>

(***************************************************************************)
(* C15: when every awaited generateResponse call is settled in the end,    *)
(* isLoading set leads to isLoading reset, and a non-blank send made while *)
(* isLoading is reset is accepted.                                         *)
(***************************************************************************)
LoadingEnds ==
    /\ isLoading ~> ~isLoading
    /\ [][(IsSendCall /\ ~isLoading /\ ~IsBlank(ResolvedPrompt(lastOp'.call[1], userInput)))
          => (isLoading' /\ Len(messages') = Len(messages) + 1)]_vars

\* a second send was accepted after the first had failed
RetryAccepted ==
    /\ Len(genOutcome) = 2
    /\ genOutcome[1] = "failed"
    /\ genOutcome[2] = "pending"
    /\ isLoading
    /\ Len(messages) = 3

(***************************************************************************)
(* C16: handleUiAction("open_settings") sets isSettingsOpen and nothing    *)
(* else: activeFormData, messages, userInput, isLoading, connectionStatus  *)
(* stay as they were and generateResponse is not invoked.                  *)
(***************************************************************************)
OpenSettingsFrame ==
    [][(lastOp'.op = "handleUiAction" /\ lastOp'.actionId = "open_settings")
       => (/\ isSettingsOpen'
           /\ lastOp'.call = <<>>
           /\ UNCHANGED <<activeFormData, messages, userInput, isLoading, connectionStatus,
                          isConnecting, configForm>>
           /\ pendingGen' = pendingGen
           /\ genOutcome' = genOutcome)]_vars

\* the settings were opened from a button while a form was half filled
SettingsOpenedOverFormData ==
    /\ lastOp.op = "handleUiAction"
    /\ lastOp.actionId = "open_settings"
    /\ isSettingsOpen
    /\ Len(activeFormData) = 2
    /\ activeFormData = lastOp.form
    /\ userInput = <<"hi">>

\* the entries of an object, as pairs of id and payload
EntriesOf(obj) == {<<obj[i].k, obj[i].v>> : i \in 1..Len(obj)}

(***************************************************************************)
(* C17: handleFormChange sets the entry of the event's id to the event's   *)
(* value and isValid, leaves every other entry of activeFormData as it     *)
(* was, and changes nothing else of the session, also while a send is      *)
(* awaited.                                                                *)
(***************************************************************************)
FormChangeFrame ==
    [][lastOp'.op = "handleFormChange"
       => LET e == lastOp'.event[1]
          IN  /\ EntriesOf(activeFormData')
                    = {p \in EntriesOf(activeFormData) : p[1] # e.id}
                        \cup {<<e.id, [value |-> e.value, isValid |-> e.isValid]>>}
              /\ Len(activeFormData') = Cardinality(EntriesOf(activeFormData'))
              /\ UNCHANGED <<messages, isLoading, userInput, connectionStatus, isSettingsOpen,
                             isConnecting, configForm>>
              /\ pendingGen' = pendingGen]_vars

\* a second field was entered while a send is awaited
FieldChangedDuringSend ==
    /\ lastOp.op = "handleFormChange"
    /\ lastOp.event[1].id = "name"
    /\ isLoading
    /\ Len(activeFormData) = 2
    /\ \E i \in 1..2 : activeFormData[i].k = "email"

(***************************************************************************)
(* C18: a handleUiAction call that empties a non-empty activeFormData      *)
(* appends, in the same step, a user turn whose promptContent holds the    *)
(* submitted form data, and invokes generateResponse with it.              *)
(***************************************************************************)
FormDataNeverLost ==
    [][(/\ lastOp'.op = "handleUiAction"
        /\ activeFormData # <<>>
        /\ activeFormData' = <<>>)
       => (/\ Len(messages') = Len(messages) + 1
           /\ messages'[Len(messages')].role = "user"
           /\ messages'[Len(messages')].promptContent = lastOp'.call[1].promptText
           /\ \E i \in 1..Len(lastOp'.call[1].promptText) :
                 lastOp'.call[1].promptText[i] = "\n\nSubmitted Form Data:\n"
           /\ \E c \in pendingGen' \ pendingGen :
                 c.prompt = lastOp'.call[1].promptText)]_vars

(***************************************************************************)
(* C19: every model turn appended for a send directly follows the user     *)
(* turn of that send.                                                      *)
(***************************************************************************)
ReplyFollowsUserTurn ==
    \A i \in 1..Len(messages) :
        (messages[i].role = "model" /\ owner[i] > 0)
            => (i > 1 /\ owner[i - 1] = owner[i] /\ messages[i - 1].role = "user")

(***************************************************************************)
(* C20: isConnecting is set exactly in the states in which an external     *)
(* connect call is awaited.                                                *)
(***************************************************************************)
ConnectingWhileAwaited == isConnecting <=> pendingConn # {}

====
